---- MODULE Spec2Model ----
(***************************************************************************)
(* Model of createAPIResourceSchemas                                       *)
(* (pkg/virtual/framework/internalapis/import.go).                         *)
(*                                                                         *)
(* One call of the function is one behaviour: Init fixes the arguments     *)
(* (schemes, openAPIDefinitionsGetters, defs) and the actions are the      *)
(* statements of the function in program order.  The library calls         *)
(* (OpenAPI builder, proto-model flattening, GVK indexing, the JSON-schema *)
(* converter, schema serialization) are modelled by their contracts.       *)
(***************************************************************************)
EXTENDS Naturals, Sequences, FiniteSets, TLC

(* ------------------------------ bounds -------------------------------- *)

\* longest openAPIDefinitionsGetters slice explored
MaxProviders == 2

\* longest defs list explored
MaxDefs == 3

(* --------------------------- value universe --------------------------- *)

\* canonical type names (util.GetCanonicalTypeName of an Instance)
TypeNames == {"T1", "T2"}

\* structural-definition records a getter can hand out.  What the library
\* stages do with a definition is a deterministic function of the record:
\*   "okA", "okB"  convert cleanly (two different structural contents)
\*   "errs"        the converter reports two conversion errors
\*   "badjson"     converts, but the resulting props cannot be marshalled
\*   "unflat"      cannot be flattened into a proto model
DefRecords == {"okA", "okB", "errs", "badjson", "unflat"}

GVK(g, v, k) == [Group |-> g, Version |-> v, Kind |-> k]

\* the getters a caller may register: each maps some type names to records
ProviderPool ==
    { [n \in {"T1", "T2"} |-> IF n = "T1" THEN "okA" ELSE "okB"],
      [n \in {"T1", "T2"} |-> IF n = "T1" THEN "okB" ELSE "errs"],
      [n \in {"T1"} |-> "badjson"],
      [n \in {"T2"} |-> "unflat"] }

\* the GVK the schemes' definition namer attaches to each type name
SchemePool ==
    { [n \in TypeNames |-> IF n = "T1" THEN GVK("", "v1", "Namespace")
                                       ELSE GVK("example.io", "v1", "Widget")],
      [n \in TypeNames |-> IF n = "T1" THEN GVK("", "v1", "Namespace")
                                       ELSE GVK("example.io", "v2", "Widget")],
      [n \in TypeNames |-> GVK("", "v1", "Namespace")] }

InternalAPI(plural, singular, kind, group, version, instance, scope, status) ==
    [ Names        |-> [Plural |-> plural, Singular |-> singular, Kind |-> kind],
      GroupVersion |-> [Group |-> group, Version |-> version],
      Instance     |-> instance,
      ResourceSope |-> scope,
      HasStatus    |-> status ]

\* the descriptors a caller may pass; the first is KCPInternalAPIs[0]
DescPool ==
    { InternalAPI("namespaces", "namespace", "Namespace", "", "v1", "T1",
                  "Cluster", TRUE),
      InternalAPI("widgets", "widget", "Widget", "example.io", "v1", "T2",
                  "Namespaced", FALSE),
      InternalAPI("widgets", "widget", "Widget", "example.io", "v2", "T2",
                  "Namespaced", TRUE) }

SeqsUpTo(S, n) == UNION { [1..k -> S] : k \in 0..n }

Range(s) == { s[k] : k \in DOMAIN s }

EmptyMap == [k \in {} |-> "okA"]

(* ------------------------------ errors -------------------------------- *)

NoErr == [kind |-> "nil", errs |-> <<>>]

Err(kind) == [kind |-> kind, errs |-> <<>>]

\* errors.NewAggregate: nil for an empty list, else the list wrapped
NewAggregate(errs) ==
    IF Len(errs) = 0 THEN NoErr ELSE [kind |-> "Aggregate", errs |-> errs]

(* ------------------- the library stages' values ----------------------- *)

\* a structural (proto) model: the definition record of one type name
Model(name, def) == [name |-> name, def |-> def]

\* the zero value a Go map lookup yields for a missing key
NilModel == [name |-> "", def |-> "nil"]

\* the zero JSONSchemaProps the caller declares before each conversion
ZeroProps == [from |-> NilModel]

\* a nil *spec.Swagger
NilSwagger == [definitions |-> EmptyMap, version |-> ""]

\* runtime.RawExtension{}
EmptyRawExtension == [set |-> FALSE, json |-> ZeroProps]

NilStatus == "nil"

EmptyStatus == "CustomResourceSubresourceStatus{}"

(* --------------- createAPIResourceSchemas, line by line --------------- *)

\* the first-write-wins merge a reversed assignment would give
MergeProviderFirstWins(result, provided) ==
    [k \in DOMAIN result \cup DOMAIN provided |->
        IF k \in DOMAIN result THEN result[k] ELSE provided[k]]

\* for key, val := range getter(ref) { result[key] = val }
MergeProvider(result, provided) ==
    [k \in DOMAIN result \cup DOMAIN provided |->
        IF k \in DOMAIN provided THEN provided[k] ELSE result[k]]

\* canonicalTypeNames = append(canonicalTypeNames, GetCanonicalTypeName(def.Instance))
CanonicalTypeNames(d) == [k \in DOMAIN d |-> d[k].Instance]

\* builder.BuildOpenAPIDefinitionsForResources: a document holding exactly
\* the requested names, or an error when one of them has no definition
BuildOpenAPIDefinitionsForResources(table, names) ==
    IF \E k \in DOMAIN names : names[k] \notin DOMAIN table
    THEN [err |-> Err("BuildError"), swagger |-> NilSwagger]
    ELSE [err     |-> NoErr,
          swagger |-> [definitions |-> [n \in Range(names) |-> table[n]],
                       version     |-> ""]]

\* openapi.ToProtoModels: one model per component, or an error when a
\* component cannot be flattened
ToProtoModels(swagger) ==
    IF \E n \in DOMAIN swagger.definitions : swagger.definitions[n] = "unflat"
    THEN [err |-> Err("ModelExtractionError"), models |-> {}]
    ELSE [err    |-> NoErr,
          models |-> { Model(n, swagger.definitions[n]) :
                          n \in DOMAIN swagger.definitions }]

\* two distinct components carrying the same group/version/kind
DuplicateGVK(models, namer) ==
    \E m1, m2 \in models : m1 # m2 /\ namer[m1.name] = namer[m2.name]

\* endpointsopenapi.GetModelsByGKV: the models keyed by the GVK the schemes'
\* namer gave their type, or an error on a duplicate key
GetModelsByGKV(models, namer) ==
    IF DuplicateGVK(models, namer)
    THEN [err |-> Err("ModelExtractionError"), index |-> <<>>]
    ELSE [err   |-> NoErr,
          index |-> [g \in { namer[m.name] : m \in models } |->
                        CHOOSE m \in models : namer[m.name] = g]]

\* if err != nil { return nil, err } after the builder, ignored
BuildFailedIgnored(err) == FALSE

\* if err != nil { return nil, err } after BuildOpenAPIDefinitionsForResources
BuildFailed(err) == err # NoErr

\* if err != nil { return nil, err } after ToProtoModels
ToProtoFailed(err) == err # NoErr

\* if err != nil { return nil, err } after the indexer, ignored
IndexFailedIgnored(err) == FALSE

\* if err != nil { return nil, err } after GetModelsByGKV
IndexFailed(err) == err # NoErr

\* gvk := def.GroupVersion.WithKind(def.Names.Kind)
WithKind(def) ==
    GVK(def.GroupVersion.Group, def.GroupVersion.Version, def.Names.Kind)

\* modelsByGKV[gvk]: the model, or the zero value when the key is absent
Lookup(index, gvk) == IF gvk \in DOMAIN index THEN index[gvk] ELSE NilModel

ConvErr(model, n) == [model |-> model, n |-> n]

\* crdpuller.Convert(model, &schemaProps): what the call can do.  A real
\* model converts or reports errors, deterministically; on the nil model of
\* a missing key the converter dereferences it (panic), and the two other
\* outcomes a converter could have there are kept as well.
Convert(model) ==
    IF model = NilModel
    THEN { [panic |-> TRUE,  errs |-> <<>>, props |-> ZeroProps],
           [panic |-> FALSE, errs |-> <<ConvErr(model, 1)>>, props |-> ZeroProps],
           [panic |-> FALSE, errs |-> <<>>, props |-> ZeroProps] }
    ELSE IF model.def = "errs"
    THEN { [panic |-> FALSE,
            errs  |-> <<ConvErr(model, 1), ConvErr(model, 2)>>,
            props |-> ZeroProps] }
    ELSE { [panic |-> FALSE, errs |-> <<>>, props |-> [from |-> model]] }

\* a loop that carries on after conversion errors
ConvertFailedIgnored(errs) == FALSE

\* if len(errs) > 0 { return nil, errors.NewAggregate(errs) }
ConvertFailed(errs) == Len(errs) > 0

\* the group used as is in the name
IdentityGroupVerbatim(group) == group

\* group := def.GroupVersion.Group; if group == "" { group = "core" }
IdentityGroup(group) == IF group = "" THEN "core" ELSE group

\* a version entry named after the descriptor's own version
NewAPIResourceSchemaOwnVersion(def, group) ==
    [ Name |-> "internal." \o def.Names.Plural \o "." \o group,
      Spec |-> [ Group    |-> def.GroupVersion.Group,
                 Names    |-> def.Names,
                 Scope    |-> def.ResourceSope,
                 Versions |-> << [ Name         |-> def.GroupVersion.Version,
                                   Served       |-> TRUE,
                                   Storage      |-> TRUE,
                                   Schema       |-> EmptyRawExtension,
                                   Subresources |-> [Status |-> NilStatus] ] >> ] ]

\* spec := &apisv1alpha1.APIResourceSchema{...}
NewAPIResourceSchema(def, group) ==
    [ Name |-> "internal." \o def.Names.Plural \o "." \o group,
      Spec |-> [ Group    |-> def.GroupVersion.Group,
                 Names    |-> def.Names,
                 Scope    |-> def.ResourceSope,
                 Versions |-> << [ Name         |-> "v1",
                                   Served       |-> TRUE,
                                   Storage      |-> TRUE,
                                   Schema       |-> EmptyRawExtension,
                                   Subresources |-> [Status |-> NilStatus] ] >> ] ]

\* a status marker attached whatever HasStatus says
SetStatusAlways(spec, def) ==
    [spec EXCEPT !.Spec.Versions[1].Subresources.Status = EmptyStatus]

\* if def.HasStatus { spec.Spec.Versions[0].Subresources.Status = &...{} }
SetStatus(spec, def) ==
    IF def.HasStatus
    THEN [spec EXCEPT !.Spec.Versions[1].Subresources.Status = EmptyStatus]
    ELSE spec

\* APIResourceVersion.SetSchema: json.Marshal(props) stored as the raw
\* schema, or the marshalling error and the version left as it was
SetSchema(version, props) ==
    IF props.from.def = "badjson"
    THEN [err |-> Err("SerializationError"), version |-> version]
    ELSE [err     |-> NoErr,
          version |-> [version EXCEPT !.Schema = [set |-> TRUE, json |-> props]]]

\* the SetSchema error dropped
SetSchemaFailedIgnored(err) == FALSE

\* if err := spec.Spec.Versions[0].SetSchema(&schemaProps); err != nil
SetSchemaFailed(err) == err # NoErr

\* an append that skips a spec already in the list
AppendAPIDedup(list, spec) ==
    IF spec \in Range(list) THEN list ELSE Append(list, spec)

\* apis = append(apis, spec)
AppendAPI(list, spec) == Append(list, spec)

(* ------------------------------- state -------------------------------- *)

VARIABLES
    schemes,        \* argument: the GVK of each type name
    providers,      \* argument: openAPIDefinitionsGetters
    defs,           \* argument: defs
    pc,             \* position in the function
    pi,             \* next getter the definitions callback calls
    result,         \* the callback's running table
    providerCalls,  \* history: getters called, in order
    swagger,        \* the description document
    models,         \* the flattened models
    modelsByGKV,    \* the model index
    i,              \* next descriptor of the loop
    apis,           \* the local result list
    stages,         \* history: library stages entered
    convCalls,      \* history: converter calls, in order
    exit,           \* history: the return statement taken
    retApis,        \* returned list
    retErr          \* returned error

vars == << schemes, providers, defs, pc, pi, result, providerCalls, swagger,
           models, modelsByGKV, i, apis, stages, convCalls, exit, retApis,
           retErr >>

args == << schemes, providers, defs >>

Init ==
    /\ schemes \in SchemePool
    /\ providers \in SeqsUpTo(ProviderPool, MaxProviders)
    /\ defs \in SeqsUpTo(DescPool, MaxDefs)
    /\ pc = "getDefinitions"
    /\ pi = 1
    /\ result = EmptyMap
    /\ providerCalls = <<>>
    /\ swagger = NilSwagger
    /\ models = {}
    /\ modelsByGKV = <<>>
    /\ i = 1
    /\ apis = <<>>
    /\ stages = {}
    /\ convCalls = <<>>
    /\ exit = "none"
    /\ retApis = <<>>
    /\ retErr = NoErr

\* a return statement
Return(where, list, err) ==
    /\ pc' = "returned"
    /\ exit' = where
    /\ retApis' = list
    /\ retErr' = err

\* one round of the callback's loop over the getters (lines 97-101)
GetDefinitions ==
    /\ pc = "getDefinitions"
    /\ pi <= Len(providers)
    /\ result' = MergeProvider(result, providers[pi])
    /\ providerCalls' = Append(providerCalls, pi)
    /\ pi' = pi + 1
    /\ UNCHANGED << args, pc, swagger, models, modelsByGKV, i, apis, stages,
                    convCalls, exit, retApis, retErr >>

\* the callback returns its table; the builder resolves the canonical
\* names; the document's version is stamped (lines 103-114)
Build ==
    /\ pc = "getDefinitions"
    /\ pi > Len(providers)
    /\ stages' = stages \cup {"build"}
    /\ LET r == BuildOpenAPIDefinitionsForResources(result,
                                                    CanonicalTypeNames(defs))
       IN  IF BuildFailed(r.err)
           THEN /\ Return("build", <<>>, r.err)
                /\ UNCHANGED swagger
           ELSE /\ swagger' = [r.swagger EXCEPT !.version = "1.0"]
                /\ pc' = "toProto"
                /\ UNCHANGED << exit, retApis, retErr >>
    /\ UNCHANGED << args, pi, result, providerCalls, models, modelsByGKV, i,
                    apis, convCalls >>

\* models, err := openapi.ToProtoModels(swagger) (lines 115-118)
Flatten ==
    /\ pc = "toProto"
    /\ stages' = stages \cup {"toProto"}
    /\ LET r == ToProtoModels(swagger)
       IN  IF ToProtoFailed(r.err)
           THEN /\ Return("toProto", <<>>, r.err)
                /\ UNCHANGED models
           ELSE /\ models' = r.models
                /\ pc' = "index"
                /\ UNCHANGED << exit, retApis, retErr >>
    /\ UNCHANGED << args, pi, result, providerCalls, swagger, modelsByGKV, i,
                    apis, convCalls >>

\* modelsByGKV, err := endpointsopenapi.GetModelsByGKV(models) (lines 120-123)
Index ==
    /\ pc = "index"
    /\ stages' = stages \cup {"index"}
    /\ LET r == GetModelsByGKV(models, schemes)
       IN  IF IndexFailed(r.err)
           THEN /\ Return("index", <<>>, r.err)
                /\ UNCHANGED modelsByGKV
           ELSE /\ modelsByGKV' = r.index
                /\ pc' = "loop"
                /\ UNCHANGED << exit, retApis, retErr >>
    /\ UNCHANGED << args, pi, result, providerCalls, swagger, models, i, apis,
                    convCalls >>

\* one iteration of the loop over defs (lines 126-163)
Assemble ==
    /\ pc = "loop"
    /\ i <= Len(defs)
    /\ LET def   == defs[i]
           model == Lookup(modelsByGKV, WithKind(def))
       IN  \E out \in Convert(model) :
             /\ convCalls' = Append(convCalls,
                                    [idx |-> i, model |-> model,
                                     errs |-> out.errs])
             /\ IF out.panic
                THEN /\ pc' = "panicked"
                     /\ UNCHANGED << i, apis, exit, retApis, retErr >>
                ELSE IF ConvertFailed(out.errs)
                THEN /\ Return("convert", <<>>, NewAggregate(out.errs))
                     /\ UNCHANGED << i, apis >>
                ELSE LET spec == SetStatus(
                                    NewAPIResourceSchema(
                                        def, IdentityGroup(def.GroupVersion.Group)),
                                    def)
                         s    == SetSchema(spec.Spec.Versions[1], out.props)
                     IN  IF SetSchemaFailed(s.err)
                         THEN /\ Return("setSchema", <<>>, s.err)
                              /\ UNCHANGED << i, apis >>
                         ELSE /\ apis' = AppendAPI(apis,
                                    [spec EXCEPT !.Spec.Versions[1] = s.version])
                              /\ i' = i + 1
                              /\ UNCHANGED << pc, exit, retApis, retErr >>
    /\ UNCHANGED << args, pi, result, providerCalls, swagger, models,
                    modelsByGKV, stages >>

\* return apis, nil (line 164)
Finish ==
    /\ pc = "loop"
    /\ i > Len(defs)
    /\ Return("ok", apis, NoErr)
    /\ UNCHANGED << args, pi, result, providerCalls, swagger, models,
                    modelsByGKV, i, apis, stages, convCalls >>

Next ==
    \/ GetDefinitions
    \/ Build
    \/ Flatten
    \/ Index
    \/ Assemble
    \/ Finish

Spec == Init /\ [][Next]_vars

(* ----------------------------- properties ----------------------------- *)

Returned == pc = "returned"

\* the model the loop hands to the converter for descriptor k
ModelOf(k) == Lookup(modelsByGKV, WithKind(defs[k]))

\* the type names some getter defines
Provided == UNION { DOMAIN providers[k] : k \in DOMAIN providers }

\* the last getter, among the first n, that defines type name t
LastDefining(t, n) ==
    CHOOSE k \in 1..n :
        /\ t \in DOMAIN providers[k]
        /\ \A j \in (k + 1)..n : t \notin DOMAIN providers[j]

\* C1: a conversion that reports errors ends the run there: it is the last
\* converter call, every descriptor before it was converted without errors,
\* the returned error aggregates exactly the errors reported for that
\* descriptor's model, and no list is returned.
C1_ShortCircuit ==
    \A k \in DOMAIN convCalls :
        /\ convCalls[k].idx = k
        /\ Len(convCalls[k].errs) > 0 =>
              /\ k = Len(convCalls)
              /\ \A j \in 1..(k - 1) : convCalls[j].errs = <<>>
              /\ Returned
              /\ exit = "convert"
              /\ retErr = [kind |-> "Aggregate", errs |-> convCalls[k].errs]
              /\ \A e \in Range(retErr.errs) : e.model = ModelOf(k)
              /\ retApis = <<>>

\* three descriptors, the first converted and assembled, the second reports
\* errors
C1_Witness ==
    /\ Returned
    /\ Len(defs) = 3
    /\ Len(convCalls) = 2
    /\ Len(apis) = 1
    /\ Len(convCalls[2].errs) = 2
    /\ retErr.kind = "Aggregate"

\* C2: every failing return hands back no list and a non-nil error, and a
\* nil error comes with one spec per descriptor, each converted without
\* errors and carrying its serialized schema.
C2_NoPartialResult ==
    Returned =>
        /\ exit # "ok" => retApis = <<>> /\ retErr # NoErr
        /\ retErr = NoErr =>
              /\ Len(retApis) = Len(defs)
              /\ Len(convCalls) = Len(defs)
              /\ \A k \in DOMAIN defs :
                    /\ convCalls[k].errs = <<>>
                    /\ retApis[k].Spec.Versions[1].Schema.set

\* a failure after a spec was already assembled
C2_Witness ==
    /\ Returned
    /\ exit \in {"convert", "setSchema"}
    /\ apis # <<>>
    /\ retApis = <<>>
    /\ retErr # NoErr

\* C3: a descriptor whose key is missing from the index is never handed to
\* the converter as an empty model, and the run reports a
\* LookupInvariantViolation.
C3_MissingKeyReported ==
    \A k \in DOMAIN convCalls :
        /\ convCalls[k].model # NilModel
        /\ (Returned /\ k = Len(convCalls) /\ ModelOf(k) = NilModel) =>
              retErr.kind = "LookupInvariantViolation"

\* C4: a successful return holds one spec per descriptor, the k-th made
\* from the k-th descriptor, duplicates included.
C4_OnePerDescriptorInOrder ==
    (Returned /\ retErr = NoErr) =>
        /\ Len(retApis) = Len(defs)
        /\ \A k \in DOMAIN defs :
              /\ retApis[k].Spec.Names = defs[k].Names
              /\ retApis[k].Spec.Group = defs[k].GroupVersion.Group
              /\ retApis[k].Spec.Scope = defs[k].ResourceSope
              /\ retApis[k].Spec.Versions[1].Schema.json.from = ModelOf(k)

\* the same descriptor twice in, the same spec twice out
C4_Witness ==
    /\ Returned
    /\ retErr = NoErr
    /\ Len(defs) >= 2
    /\ defs[1] = defs[2]
    /\ retApis[1] = retApis[2]

\* C5: every assembled spec is named internal.<plural>.<group>, with core
\* standing in for the empty group in the name only; group, names and scope
\* are the descriptor's own.
C5_Identity ==
    \A k \in DOMAIN apis :
        LET g == defs[k].GroupVersion.Group
        IN  /\ g = "" =>
                  apis[k].Name = "internal." \o defs[k].Names.Plural \o ".core"
            /\ g # "" =>
                  apis[k].Name = "internal." \o defs[k].Names.Plural \o "." \o g
            /\ apis[k].Spec.Group = g
            /\ apis[k].Spec.Names = defs[k].Names
            /\ apis[k].Spec.Scope = defs[k].ResourceSope

\* both naming cases in one returned list
C5_Witness ==
    /\ Returned
    /\ \E k \in DOMAIN retApis :
          /\ retApis[k].Name = "internal.namespaces.core"
          /\ retApis[k].Spec.Group = ""
    /\ \E k \in DOMAIN retApis :
          /\ retApis[k].Name = "internal.widgets.example.io"
          /\ retApis[k].Spec.Group = "example.io"

\* C6: a spec's version entry carries a status marker exactly when its
\* descriptor has HasStatus set.
C6_StatusIffHasStatus ==
    \A k \in DOMAIN apis :
        (apis[k].Spec.Versions[1].Subresources.Status # NilStatus)
            <=> defs[k].HasStatus

\* a returned list with a marked and an unmarked entry
C6_Witness ==
    /\ Returned
    /\ \E k \in DOMAIN retApis :
          /\ defs[k].HasStatus
          /\ retApis[k].Spec.Versions[1].Subresources.Status = EmptyStatus
    /\ \E k \in DOMAIN retApis :
          /\ ~defs[k].HasStatus
          /\ retApis[k].Spec.Versions[1].Subresources.Status = NilStatus

\* C7: every returned spec has one version entry, v1, served and stored,
\* whose schema is the serialized output of the converter for the
\* descriptor's model, whatever the descriptor's own version.
C7_SingleV1Version ==
    (Returned /\ retErr = NoErr) =>
        \A k \in DOMAIN retApis :
            LET v == retApis[k].Spec.Versions
            IN  /\ Len(v) = 1
                /\ v[1].Name = "v1"
                /\ v[1].Served
                /\ v[1].Storage
                /\ v[1].Schema.set
                /\ \E out \in Convert(ModelOf(k)) :
                      /\ out.errs = <<>>
                      /\ ~out.panic
                      /\ v[1].Schema.json = out.props

\* a descriptor of version v2, found in the index, returned under v1
C7_Witness ==
    /\ Returned
    /\ retErr = NoErr
    /\ \E k \in DOMAIN retApis :
          /\ defs[k].GroupVersion.Version = "v2"
          /\ ModelOf(k) # NilModel
          /\ retApis[k].Spec.Versions[1].Name = "v1"
          /\ retApis[k].Spec.Versions[1].Schema.json.from = ModelOf(k)

\* C8: the getters are called in registration order, and after the first n
\* of them the table's keys are the union of their keys, each holding the
\* definition of the last of them that defines it.
C8_LastWriteWins ==
    LET n == pi - 1
    IN  /\ providerCalls = [k \in 1..n |-> k]
        /\ DOMAIN result = UNION { DOMAIN providers[k] : k \in 1..n }
        /\ \A t \in DOMAIN result :
              result[t] = providers[LastDefining(t, n)][t]
        /\ pc # "getDefinitions" => n = Len(providers)

\* two getters define T1 differently; the table holds the second's record
\* and the run went on
C8_Witness ==
    /\ pc = "toProto"
    /\ Len(providers) = 2
    /\ "T1" \in DOMAIN providers[1] \cap DOMAIN providers[2]
    /\ providers[1]["T1"] # providers[2]["T1"]
    /\ result["T1"] = providers[2]["T1"]

\* a descriptor whose instance no getter defines
MissingName == \E k \in DOMAIN defs : defs[k].Instance \notin Provided

\* C9: when a requested type name is defined by no getter the run ends at
\* the builder with BuildError: no document, no flattening, no indexing, no
\* converter call, no list.
C9_MissingNameTerminal ==
    MissingName =>
        /\ pc \in {"getDefinitions", "returned"}
        /\ swagger = NilSwagger
        /\ stages \subseteq {"build"}
        /\ convCalls = <<>>
        /\ Returned =>
              /\ exit = "build"
              /\ retErr.kind = "BuildError"
              /\ retApis = <<>>

\* T1 is defined, T2 is requested and defined nowhere, the run has returned
C9_Witness ==
    /\ Returned
    /\ MissingName
    /\ Provided # {}
    /\ \E k \in DOMAIN defs : defs[k].Instance \in Provided
    /\ retErr.kind = "BuildError"

\* C10: when two components of the document carry the same group, version
\* and kind the run ends at the indexer with ModelExtractionError, before
\* the loop: no converter call, no list.
C10_DuplicateKindTerminal ==
    (stages = {"build", "toProto", "index"} /\ DuplicateGVK(models, schemes)) =>
        /\ Returned
        /\ exit = "index"
        /\ retErr.kind = "ModelExtractionError"
        /\ convCalls = <<>>
        /\ apis = <<>>
        /\ retApis = <<>>

\* T1 and T2 both flattened, both named the same kind by the schemes
C10_Witness ==
    /\ Returned
    /\ exit = "index"
    /\ Cardinality(models) = 2
    /\ DuplicateGVK(models, schemes)
    /\ retErr.kind = "ModelExtractionError"

====
